---- MODULE Spec2Model ----
(***************************************************************************)
(* A model of the report parser of iMultiwfn (src/helper/descriptors.py):  *)
(* _get_other_descriptors, _read_charge, _read_fuzzy,                      *)
(* _get_cdft_descriptors and get_descriptors.                              *)
(*                                                                         *)
(* Report texts are TLA+ strings holding the characters of the report, so  *)
(* the Python string operations the parser uses (substring test, split on  *)
(* a separator, whitespace split, splitlines, slicing, int(), float() and  *)
(* the regular-expression searches) are modelled by what they do.          *)
(*                                                                         *)
(* Numbers: a Python float is modelled as an integer count of thousandths  *)
(* (FloatScale), which is exact for the decimal numerals of the reports    *)
(* drawn here (at most three decimals, no exponent, no inf/nan).           *)
(***************************************************************************)
EXTENDS Integers, Sequences, FiniteSets, TLC

(***************************************************************************)
(* Python values.                                                          *)
(***************************************************************************)
None == [type |-> "None"]
PyFloat(v) == [type |-> "float", val |-> v]
PyInt(v) == [type |-> "int", val |-> v]

\* An exception that propagates out of the parser: its class, the descriptor
\* being extracted and the (1-based) line of the anchor that was being handled.
Raise(kind, field, line) == [type |-> "raise", kind |-> kind, field |-> field, line |-> line]
NoError == [type |-> "ok"]
IsRaise(e) == e.type = "raise"

(***************************************************************************)
(* Python string operations.                                               *)
(***************************************************************************)
Whitespace == {" ", "\t", "\n", "\r"}
Digits == {"0", "1", "2", "3", "4", "5", "6", "7", "8", "9"}
Letters == {"a", "b", "c", "d", "e", "f", "g", "h", "i", "j", "k", "l", "m",
            "n", "o", "p", "q", "r", "s", "t", "u", "v", "w", "x", "y", "z",
            "A", "B", "C", "D", "E", "F", "G", "H", "I", "J", "K", "L", "M",
            "N", "O", "P", "Q", "R", "S", "T", "U", "V", "W", "X", "Y", "Z"}
\* \w of the re module
WordChars == Letters \cup Digits \cup {"_"}

CharAt(s, i) == SubSeq(s, i, i)
From(s, i) == SubSeq(s, i, Len(s))

\* the least and the greatest element of a non-empty set of integers
Least(S) == CHOOSE m \in S : \A n \in S : m <= n
Greatest(S) == CHOOSE m \in S : \A n \in S : m >= n

\* s.find(sub, i - 1) + 1: the first position >= i where sub occurs, 0 if none
FindFrom(s, sub, i) ==
    LET P == {j \in i..(Len(s) - Len(sub) + 1) : SubSeq(s, j, j + Len(sub) - 1) = sub}
    IN  IF P = {} THEN 0 ELSE Least(P)

Find(s, sub) == FindFrom(s, sub, 1)

\* sub in s
Contains(s, sub) ==
    \E j \in 1..(Len(s) - Len(sub) + 1) : SubSeq(s, j, j + Len(sub) - 1) = sub

\* s.split(sep) for a non-empty separator
RECURSIVE SplitOn(_, _)
\* the pieces of s for the first occurrence of sep at p (0: none)
SplitAt(s, sep, p) ==
    IF p = 0 THEN <<s>>
    ELSE <<SubSeq(s, 1, p - 1)>> \o SplitOn(From(s, p + Len(sep)), sep)
SplitOn(s, sep) == SplitAt(s, sep, Find(s, sep))

\* the end of the maximal run of characters of class C that starts at i
\* (i - 1 when the character at i is not in C)
RunEnd(s, C, i) ==
    LET stops == {j \in i..Len(s) : CharAt(s, j) \notin C}
    IN  IF i > Len(s) THEN i - 1
        ELSE IF stops = {} THEN Len(s) ELSE Least(stops) - 1

\* the end of the maximal run of characters outside C that starts at i
RunEndNot(s, C, i) ==
    LET stops == {j \in i..Len(s) : CharAt(s, j) \in C}
    IN  IF i > Len(s) THEN i - 1
        ELSE IF stops = {} THEN Len(s) ELSE Least(stops) - 1

\* s.split(): the maximal runs of non-whitespace characters
RECURSIVE SplitWSFrom(_, _)
\* the token b..e and those after it; the tokens from the first one, at b
TokenTo(s, b, e) == <<SubSeq(s, b, e)>> \o SplitWSFrom(s, e + 1)
TokenFrom(s, b) ==
    IF b > Len(s) THEN <<>> ELSE TokenTo(s, b, RunEndNot(s, Whitespace, b))
SplitWSFrom(s, i) == TokenFrom(s, RunEnd(s, Whitespace, i) + 1)

SplitWS(s) == SplitWSFrom(s, 1)

\* s.strip()
Strip(s) ==
    LET ink == {j \in 1..Len(s) : CharAt(s, j) \notin Whitespace}
    IN  IF ink = {} THEN "" ELSE SubSeq(s, Least(ink), Greatest(ink))

\* The pieces of s between the line ends at the positions NL that lie in
\* lo..hi, in text order: the text is halved at a line end near its middle.
RECURSIVE Pieces(_, _, _, _)
Pieces(s, NL, lo, hi) ==
    LET inside == {p \in NL : lo <= p /\ p <= hi}
        upper == {p \in inside : 2 * p >= lo + hi}
        p == IF upper = {} THEN Greatest(inside) ELSE Least(upper)
    IN  IF inside = {} THEN << SubSeq(s, lo, hi) >>
        ELSE Pieces(s, NL, lo, p - 1) \o Pieces(s, NL, p + 1, hi)

\* contents.splitlines(): the lines of a text, without their line ends; a
\* final line end opens no further line
WithoutLastEmpty(ps) ==
    IF ps[Len(ps)] = "" THEN SubSeq(ps, 1, Len(ps) - 1) ELSE ps
SplitLines(s) ==
    WithoutLastEmpty(Pieces(s, {j \in 1..Len(s) : CharAt(s, j) = "\n"}, 1, Len(s)))

\* seq[a:b] of Python for 0-based a, b (a negative index counts from the end)
Clamp(n, len) == IF n < 0 THEN (IF n + len < 0 THEN 0 ELSE n + len)
                 ELSE IF n > len THEN len ELSE n
Slice(seq, a, b) == SubSeq(seq, Clamp(a, Len(seq)) + 1, Clamp(b, Len(seq)))

DigitVal(c) == CASE c = "0" -> 0 [] c = "1" -> 1 [] c = "2" -> 2 [] c = "3" -> 3
                 [] c = "4" -> 4 [] c = "5" -> 5 [] c = "6" -> 6 [] c = "7" -> 7
                 [] c = "8" -> 8 [] c = "9" -> 9

\* the value of a string of digits ("" is 0)
RECURSIVE DigitsVal(_)
DigitsVal(s) ==
    IF s = "" THEN 0
    ELSE 10 * DigitsVal(SubSeq(s, 1, Len(s) - 1)) + DigitVal(CharAt(s, Len(s)))

AllIn(s, C) == \A i \in 1..Len(s) : CharAt(s, i) \in C

\* the numeral without its sign, and the sign
Unsigned(t) == IF Len(t) > 0 /\ CharAt(t, 1) \in {"+", "-"} THEN From(t, 2) ELSE t
SignOf(t) == IF Len(t) > 0 /\ CharAt(t, 1) = "-" THEN -1 ELSE 1

\* what a conversion yields: [ok, val]; ok is FALSE where it raises ValueError
Value(v) == [ok |-> TRUE, val |-> v]
NoValue == [ok |-> FALSE, val |-> 0]

\* int(s), from the sign and the digits of the stripped string
IntOf(sign, u) ==
    IF Len(u) > 0 /\ AllIn(u, Digits) THEN Value(sign * DigitsVal(u)) ELSE NoValue
IntOfNumeral(t) == IntOf(SignOf(t), Unsigned(t))
ParseInt(s) == IntOfNumeral(Strip(s))

\* number of thousandths in one unit: the scale of a modelled float
FloatScale == 10 * 10 * 10

\* the first three decimals, padded with zeros
RECURSIVE PadFrac(_)
PadFrac(f) == IF Len(f) >= 3 THEN SubSeq(f, 1, 3) ELSE PadFrac(f \o "0")

\* float(s), from the sign, the integer part ip and the fraction fp of the
\* stripped string, which has its point at p (0: none)
Decimal(sign, ip, fp) ==
    IF Len(ip) + Len(fp) > 0 /\ AllIn(ip, Digits) /\ AllIn(fp, Digits)
    THEN Value(sign * (FloatScale * DigitsVal(ip) + DigitsVal(PadFrac(fp))))
    ELSE NoValue
DecimalAt(sign, u, p) ==
    Decimal(sign, IF p = 0 THEN u ELSE SubSeq(u, 1, p - 1),
                  IF p = 0 THEN "" ELSE From(u, p + 1))
FloatOf(sign, u) == DecimalAt(sign, u, Find(u, "."))
FloatOfNumeral(t) == FloatOf(SignOf(t), Unsigned(t))
ParseFloat(s) == FloatOfNumeral(Strip(s))

(***************************************************************************)
(* Regular expressions of the parser.                                      *)
(***************************************************************************)
NoMatch == [matched |-> FALSE, group |-> ""]

\* re.search(prefix + r"\s+([cls]+)", s) from position i on: the leftmost
\* occurrence of the literal prefix that is followed by one or more
\* whitespace characters and then one or more characters of cls; group(1) is
\* the maximal run of cls characters (both quantifiers are greedy, and giving
\* characters back never lets the rest match).
RECURSIVE ReSearchFrom(_, _, _, _)
\* the match for the prefix at p, whitespace up to w and the group up to g
ReGroup(s, prefix, cls, p, w, g) ==
    IF g >= w + 1 THEN [matched |-> TRUE, group |-> SubSeq(s, w + 1, g)]
    ELSE ReSearchFrom(s, prefix, cls, p + 1)
ReSpace(s, prefix, cls, p, w) ==
    IF w >= p + Len(prefix) THEN ReGroup(s, prefix, cls, p, w, RunEnd(s, cls, w + 1))
    ELSE ReSearchFrom(s, prefix, cls, p + 1)
RePrefix(s, prefix, cls, p) ==
    IF p = 0 THEN NoMatch
    ELSE ReSpace(s, prefix, cls, p, RunEnd(s, Whitespace, p + Len(prefix)))
ReSearchFrom(s, prefix, cls, i) == RePrefix(s, prefix, cls, FindFrom(s, prefix, i))

ReSearch(s, prefix, cls) == ReSearchFrom(s, prefix, cls, 1)

\* [\d.-] and [\d.]
SignedNumChars == Digits \cup {".", "-"}
NumChars == Digits \cup {"."}

(***************************************************************************)
(* _get_other_descriptors: the descriptor record and the scalar pass.      *)
(***************************************************************************)
ScalarNames == {"atom_num", "total_energy", "HOMO", "LUMO", "HOMO_LUMO_gap",
                "radius_gyration", "mass", "diameter", "MPP", "SDP",
                "sphericity", "dipole_moment"}
SurfaceNames == {"surface_area", "volume", "MPI", "ESP_min", "ESP_max",
                 "ALIE_min", "ALIE_max", "ALIE_avg", "LEAE_min", "LEAE_max",
                 "LEA_min", "LEA_max", "LEA_avg"}
ChargeNames == {"Hirshfeld_charge", "ADCH_charge", "RESP_charge", "spin_population"}
FuzzyNames == {"electron_density", "Laplacian_electron_density", "kinetic_energy_density"}
AtomSeriesNames == ChargeNames \cup FuzzyNames
OtherNames == ScalarNames \cup SurfaceNames \cup AtomSeriesNames

\* A dictionary whose defaults are 0.
ZeroDescriptors == [k \in OtherNames |-> PyInt(0)]

\* descriptors = {...: None}
InitialDescriptors == [k \in OtherNames |-> None]

\* The outcome of a step of the parser: the record so far and the exception
\* raised, if any.
Ok(d) == [d |-> d, err |-> NoError]
Fail(d, kind, field, line) == [d |-> d, err |-> Raise(kind, field, line)]

\* descriptors[key] = f for what float() returned, ValueError if it raised
SetValue(d, key, f, i) ==
    IF f.ok THEN Ok([d EXCEPT ![key] = PyFloat(f.val)])
    ELSE Fail(d, "ValueError", key, i)

\* descriptors[key] = float(s)
SetFloat(d, key, s, i) == SetValue(d, key, ParseFloat(s), i)

\* descriptors[key] = float(re.search(...).group(1)): .group of None raises
\* AttributeError
SetMatch(d, key, m, i) ==
    IF m.matched THEN SetFloat(d, key, m.group, i)
    ELSE Fail(d, "AttributeError", key, i)

\* The assignment that keeps the count of the first ' Atoms:  ' line.
SetCountOnce(d, n, i) ==
    IF d["atom_num"] # None THEN Ok(d)
    ELSE IF n.ok THEN Ok([d EXCEPT !["atom_num"] = PyInt(n.val)])
    ELSE Fail(d, "ValueError", "atom_num", i)

\* descriptors['atom_num'] = n for what int() returned
SetCount(d, n, i) ==
    IF n.ok THEN Ok([d EXCEPT !["atom_num"] = PyInt(n.val)])
    ELSE Fail(d, "ValueError", "atom_num", i)

\* descriptors['atom_num'] = int(line.split(': ')[1].split(',')[0])
SetAtomNum(d, line, i) ==
    SetCount(d, ParseInt(SplitOn(SplitOn(line, ": ")[2], ",")[1]), i)

\* The name of the branch of the scalar pass that handles a line: the first
\* condition of the if/elif chain the line satisfies, "" if none.
ScalarBranch(line) ==
    IF Contains(line, " Atoms:  ") THEN "atom_num"
    ELSE IF Contains(line, " Molecule weight:      ") THEN "mass"
    ELSE IF Contains(line, " Total energy:    ") THEN "total_energy"
    ELSE IF Contains(line, "Orbital") /\ Contains(line, "HOMO") THEN "HOMO"
    ELSE IF Contains(line, "Orbital") /\ Contains(line, "LUMO") THEN "LUMO"
    ELSE IF Contains(line, "HOMO-LUMO gap:") THEN "HOMO_LUMO_gap"
    ELSE IF Contains(line, " Radius of gyration") THEN "radius_gyration"
    ELSE IF Contains(line, " Molecular planarity parameter (MPP) is") THEN "MPP"
    ELSE IF Contains(line, " Span of deviation from plane (SDP) is") THEN "SDP"
    ELSE IF Contains(line, " Diameter of the system") THEN "diameter"
    ELSE IF Contains(line, " Sphericity") THEN "sphericity"
    ELSE IF Contains(line, " Magnitude of molecular dipole moment (a.u.&Debye)")
         THEN "dipole_moment"
    ELSE ""

\* The end marker of the two branches that read their number with split,
\* and the pattern r'<prefix>\s+([<cls>]+)' of the branches that read it
\* with re.search.
EndMarker(b) == IF b = "mass" THEN " Da" ELSE "Hartree"
Pattern(b) ==
    CASE b \in {"HOMO", "LUMO"} -> [prefix |-> "energy:", cls |-> SignedNumChars]
      [] b = "HOMO_LUMO_gap" -> [prefix |-> "gap:", cls |-> SignedNumChars]
      [] b \in {"radius_gyration", "sphericity", "dipole_moment"} ->
            [prefix |-> ":", cls |-> NumChars]
      [] b \in {"MPP", "SDP"} -> [prefix |-> "is", cls |-> NumChars]
      [] b = "diameter" -> [prefix |-> "system:", cls |-> NumChars]

\* One iteration of the scalar loop, on line i, which the branch b handles.
ScalarCase(d, line, i, b) ==
    IF b = "" THEN Ok(d)
    ELSE IF b = "atom_num" THEN SetAtomNum(d, line, i)
    ELSE IF b \in {"mass", "total_energy"}
    THEN SetFloat(d, b, SplitOn(SplitOn(line, ": ")[2], EndMarker(b))[1], i)
    ELSE SetMatch(d, b, ReSearch(line, Pattern(b).prefix, Pattern(b).cls), i)

ScalarLine(d, line, i) == ScalarCase(d, line, i, ScalarBranch(line))

\* the lines some branch of the scalar pass handles
ScalarHits(lines) == {i \in 1..Len(lines) : ScalarBranch(lines[i]) # ""}

\* for line in lines: ..., from the lines `hits` on: the lines no branch
\* handles change nothing, and the loop ends at the first exception
RECURSIVE ScalarLoop(_, _, _)
\* the loop after an iteration that left r, with the lines `rest` to go
ScalarNext(r, lines, rest) ==
    IF IsRaise(r.err) THEN r ELSE ScalarLoop(r.d, lines, rest)
ScalarLoop(d, lines, hits) ==
    IF hits = {} THEN Ok(d)
    ELSE ScalarNext(ScalarLine(d, lines[Least(hits)], Least(hits)), lines,
                    hits \ {Least(hits)})

(***************************************************************************)
(* _get_other_descriptors: the surface-analysis pass.                      *)
(***************************************************************************)
SurfaceHeading == "       ================= Summary of surface analysis ================="

\* 0.529177249 ** 3 and 0.529177249 ** 2 in thousandths (Bohr to Angstrom)
BohrCubed == 148
BohrSquared == 280

\* One extraction of the pass: the descriptor, the line it is read from (an
\* offset from the heading), the markers around the number and the factor
\* (in thousandths) the number is multiplied by.
Step(key, off, begin, end, factor) ==
    [key |-> key, off |-> off, begin |-> begin, end |-> end, factor |-> factor]

\* The extractions of the branch for the index-th heading, in program order.
SurfaceSteps(index) ==
    CASE index = 1 ->
            << Step("volume", 2, "Volume: ", "Bohr^3", BohrCubed),
               Step("surface_area", 4, "Overall surface area: ", "Bohr^2", BohrSquared) >>
      [] index = 2 ->
            << Step("ESP_min", 4, " Minimal value:  ", "kcal/mol   Maximal", FloatScale),
               Step("ESP_max", 4, "Maximal value: ", "kcal/mol", FloatScale),
               Step("MPI", 17, ":", "eV", FloatScale) >>
      [] index = 3 ->
            << Step("ALIE_min", 4, " Minimal value:  ", "eV,  ", FloatScale),
               Step("ALIE_max", 4, "Maximal value: ", "eV", FloatScale),
               Step("ALIE_avg", 8, "value:", "a.u. ", FloatScale) >>
      [] index = 4 ->
            << Step("LEA_min", 4, " Minimal value:  ", "eV,  ", FloatScale),
               Step("LEA_max", 4, "Maximal value: ", "eV", FloatScale),
               Step("LEA_avg", 8, "value:", "a.u. ", FloatScale) >>
      [] index = 5 ->
            << Step("LEAE_min", 4, " Minimal value:  ", "eV,  ", FloatScale),
               Step("LEAE_max", 4, "Maximal value: ", "eV", FloatScale) >>
      [] OTHER -> << >>

\* line = lines[idx + off]; new_str = line.split(begin)[1].split(end)[0];
\* descriptors[key] = float(new_str) * factor, for the heading on line i:
\* IndexError when the line or the begin marker is missing, ValueError when
\* what precedes the end marker is no number.
ExtractValue(d, i, st, f) ==
    IF ~f.ok THEN Fail(d, "ValueError", st.key, i)
    ELSE Ok([d EXCEPT ![st.key] = PyFloat((f.val * st.factor) \div FloatScale)])
ExtractParts(d, i, st, parts) ==
    IF Len(parts) < 2 THEN Fail(d, "IndexError", st.key, i)
    ELSE ExtractValue(d, i, st, ParseFloat(SplitOn(parts[2], st.end)[1]))
Extract(d, lines, i, st) ==
    IF i + st.off > Len(lines) THEN Fail(d, "IndexError", st.key, i)
    ELSE ExtractParts(d, i, st, SplitOn(lines[i + st.off], st.begin))

\* the extractions of a branch from the k-th on
RECURSIVE RunSteps(_, _, _, _, _)
StepNext(r, lines, i, steps, k) ==
    IF IsRaise(r.err) THEN r ELSE RunSteps(r.d, lines, i, steps, k + 1)
RunSteps(d, lines, i, steps, k) ==
    IF k > Len(steps) THEN Ok(d)
    ELSE StepNext(Extract(d, lines, i, steps[k]), lines, i, steps, k)

\* The outcome of a counting loop: the record, the exception if any, and the
\* occurrence counter.
Counted(r, index) == [d |-> r.d, err |-> r.err, index |-> index]

\* the lines that contain the anchor
Hits(lines, anchor) == {i \in 1..Len(lines) : Contains(lines[i], anchor)}

\* The loop with a counter that stays at 1: every heading is read as the
\* first one.
RECURSIVE SurfaceLoopOneRank(_, _, _, _)
SurfaceLoopOneRank(d, lines, hits, index) ==
    IF hits = {} THEN Counted(Ok(d), index)
    ELSE LET i == Least(hits)
             r == RunSteps(d, lines, i, SurfaceSteps(1), 1)
         IN  IF IsRaise(r.err) THEN Counted(r, 1)
             ELSE SurfaceLoopOneRank(r.d, lines, hits \ {i}, 1)

\* for idx, line in enumerate(lines): if heading in line: index += 1 ...,
\* from the heading lines `hits` on, index headings having been seen
RECURSIVE SurfaceLoop(_, _, _, _)
\* the loop after the index-th heading left r, with the headings `rest` to go
SurfaceNext(r, lines, rest, index) ==
    IF IsRaise(r.err) THEN Counted(r, index)
    ELSE SurfaceLoop(r.d, lines, rest, index)
SurfaceLoop(d, lines, hits, index) ==
    IF hits = {} THEN Counted(Ok(d), index)
    ELSE SurfaceNext(RunSteps(d, lines, Least(hits), SurfaceSteps(index + 1), 1),
                     lines, hits \ {Least(hits)}, index + 1)

(***************************************************************************)
(* _read_charge and _read_fuzzy.                                           *)
(***************************************************************************)
Molecule(atoms, charges) == [type |-> "Molecule", atoms |-> atoms, charges |-> charges]

\* The tokens (0-based, as in the code) a layout reads: the two of the label
\* (second = -1: the label is the first token followed by ")"), the one of
\* the value, and whether the label is passed through strip().
Layout(first, second, value, strip) ==
    [first |-> first, second |-> second, value |-> value, strip |-> strip]

ChargeLayouts == [RESP |-> Layout(0, 1, 2, FALSE), Hirshfeld |-> Layout(4, 5, 7, TRUE),
                  ADCH |-> Layout(1, -1, 3, FALSE), spin |-> Layout(1, 2, 4, FALSE)]
FuzzyLayouts == [electron_density |-> Layout(0, 1, 2, FALSE),
                 Laplacian_electron_density |-> Layout(0, 1, 2, FALSE),
                 kinetic_energy_density |-> Layout(0, 1, 2, FALSE)]

\* One iteration of a row loop: parts = line.split(); the label and
\* float(parts[value]). [kind, atom, charge]: kind is "" for a row that is
\* read, else the exception raised (IndexError for a missing token,
\* ValueError for a value that is no number).
NoRow(kind) == [kind |-> kind, atom |-> "", charge |-> 0]
AtomName(parts, lay) ==
    parts[lay.first + 1] \o (IF lay.second = -1 THEN ")" ELSE parts[lay.second + 1])
RowValue(parts, lay, f) ==
    IF ~f.ok THEN NoRow("ValueError")
    ELSE [kind |-> "", charge |-> f.val,
          atom |-> IF lay.strip THEN Strip(AtomName(parts, lay)) ELSE AtomName(parts, lay)]
RowParts(parts, lay) ==
    IF Len(parts) < lay.value + 1 THEN NoRow("IndexError")
    ELSE RowValue(parts, lay, ParseFloat(parts[lay.value + 1]))
ReadRow(line, lay) == RowParts(SplitWS(line), lay)

\* A row loop that passes over the rows it cannot read.
RECURSIVE ReadRowsSkipping(_, _, _, _, _)
ReadRowsSkipping(rows, lay, k, atoms, charges) ==
    IF k > Len(rows) THEN [kind |-> "", mol |-> Molecule(atoms, charges)]
    ELSE LET r == ReadRow(rows[k], lay)
         IN  IF r.kind # "" THEN ReadRowsSkipping(rows, lay, k + 1, atoms, charges)
             ELSE ReadRowsSkipping(rows, lay, k + 1, Append(atoms, r.atom),
                                   Append(charges, r.charge))

\* for line in charge_lines: ... atoms.append(...); charges.append(...)
\* [kind, mol]: the Molecule returned, or the exception of the first row
\* that raises.
RECURSIVE ReadRows(_, _, _, _, _)
\* the loop after the k-th row was read as r
RowNext(r, rows, lay, k, atoms, charges) ==
    IF r.kind # "" THEN [kind |-> r.kind, mol |-> Molecule(atoms, charges)]
    ELSE ReadRows(rows, lay, k + 1, Append(atoms, r.atom), Append(charges, r.charge))
ReadRows(rows, lay, k, atoms, charges) ==
    IF k > Len(rows) THEN [kind |-> "", mol |-> Molecule(atoms, charges)]
    ELSE RowNext(ReadRow(rows[k], lay), rows, lay, k, atoms, charges)

\* _read_charge(charge_lines, charge_type): a type that is none of the four
\* runs no loop and returns the empty Molecule
ReadCharge(charge_lines, charge_type) ==
    IF charge_type \in DOMAIN ChargeLayouts
    THEN ReadRows(charge_lines, ChargeLayouts[charge_type], 1, << >>, << >>)
    ELSE [kind |-> "", mol |-> Molecule(<< >>, << >>)]

\* _read_fuzzy(contents, descriptor_name)
ReadFuzzy(contents, descriptor_name) ==
    IF descriptor_name \in DOMAIN FuzzyLayouts
    THEN ReadRows(contents, FuzzyLayouts[descriptor_name], 1, << >>, << >>)
    ELSE [kind |-> "", mol |-> Molecule(<< >>, << >>)]

(***************************************************************************)
(* _get_other_descriptors: the atom passes.                                *)
(***************************************************************************)
\* The anchors of the charge pass in the order of its if/elif chain, each with
\* the descriptor, the layout and the offset of the first row.
ChargeSections ==
    << [anchor |-> " Citation of ADCH: Tian Lu, Feiwu Chen",
        key |-> "Hirshfeld_charge", layout |-> "Hirshfeld", off |-> 8],
       [anchor |-> " Note: The values shown after \"Corrected charge\" are ADCH charges",
        key |-> "ADCH_charge", layout |-> "ADCH", off |-> 6],
       [anchor |-> " Stage 2 of standard RESP fitting is skipped since no atom needs to be fitted",
        key |-> "RESP_charge", layout |-> "RESP", off |-> 3],
       [anchor |-> " Population of atoms",
        key |-> "spin_population", layout |-> "spin", off |-> 1] >>

\* the first branch of the chain whose anchor the line contains, 0 if none
FirstOf(S) == IF S = {} THEN 0 ELSE Least(S)
ChargeBranch(line) ==
    FirstOf({k \in 1..Len(ChargeSections) : Contains(line, ChargeSections[k].anchor)})

\* The lookup that finds the last line equal to the given one.
IndexOfLast(lines, line) ==
    CHOOSE p \in 1..Len(lines) : lines[p] = line /\ \A q \in (p + 1)..Len(lines) : lines[q] # line

\* lines.index(line) + 1: the first line equal to the given one
IndexOf(lines, line) ==
    CHOOSE p \in 1..Len(lines) : lines[p] = line /\ \A q \in 1..(p - 1) : lines[q] # line

\* start_idx = first + off; end_idx = start_idx + descriptors['atom_num'];
\* descriptors[key] = reader(lines[start_idx: end_idx]) for the anchor on line
\* i, where first is the 0-based index the code starts from: TypeError when
\* atom_num is None.
Window(lines, first, off, n) == Slice(lines, first + off, first + off + n)

\* A section reader that passes over the section when atom_num is None.
ReadSectionLenient(d, lines, i, first, off, key, read) ==
    IF d["atom_num"] = None THEN Ok(d)
    ELSE IF read.kind # "" THEN Fail(d, read.kind, key, i)
    ELSE Ok([d EXCEPT ![key] = read.mol])

ReadSection(d, lines, i, first, off, key, read) ==
    IF d["atom_num"] = None THEN Fail(d, "TypeError", key, i)
    ELSE IF read.kind # "" THEN Fail(d, read.kind, key, i)
    ELSE Ok([d EXCEPT ![key] = read.mol])

\* One iteration of the charge loop, on line i, which the branch b handles.
ChargeRead(d, lines, i, sec, first) ==
    ReadSection(d, lines, i, first, sec.off, sec.key,
        ReadCharge(Window(lines, first, sec.off, d["atom_num"].val), sec.layout))
ChargeCase(d, lines, i, b) ==
    IF b = 0 THEN Ok(d)
    ELSE ChargeRead(d, lines, i, ChargeSections[b], IndexOf(lines, lines[i]) - 1)
ChargeLine(d, lines, i) == ChargeCase(d, lines, i, ChargeBranch(lines[i]))

\* the lines some branch of the charge pass handles
ChargeHits(lines) == {i \in 1..Len(lines) : ChargeBranch(lines[i]) # 0}

\* for line in lines: ..., from the anchor lines `hits` on
RECURSIVE ChargeLoop(_, _, _)
ChargeNext(r, lines, rest) ==
    IF IsRaise(r.err) THEN r ELSE ChargeLoop(r.d, lines, rest)
ChargeLoop(d, lines, hits) ==
    IF hits = {} THEN Ok(d)
    ELSE ChargeNext(ChargeLine(d, lines, Least(hits)), lines, hits \ {Least(hits)})

FuzzyHeader == "   Atomic space        Value  "

\* the descriptor of the index-th header, "" from the fourth on
FuzzyKey(index) ==
    CASE index = 1 -> "electron_density"
      [] index = 2 -> "Laplacian_electron_density"
      [] index = 3 -> "kinetic_energy_density"
      [] OTHER -> ""

\* One iteration of the fuzzy loop on a header line i, the index-th header.
FuzzyLine(d, lines, i, index) ==
    IF FuzzyKey(index) = "" THEN Ok(d)
    ELSE ReadSection(d, lines, i, i - 1, 1, FuzzyKey(index),
            ReadFuzzy(Window(lines, i - 1, 1, d["atom_num"].val), FuzzyKey(index)))

\* for idx, line in enumerate(lines): if header in line: index += 1 ...,
\* from the header lines `hits` on, index headers having been seen
RECURSIVE FuzzyLoop(_, _, _, _)
FuzzyNext(r, lines, rest, index) ==
    IF IsRaise(r.err) THEN Counted(r, index)
    ELSE FuzzyLoop(r.d, lines, rest, index)
FuzzyLoop(d, lines, hits, index) ==
    IF hits = {} THEN Counted(Ok(d), index)
    ELSE FuzzyNext(FuzzyLine(d, lines, Least(hits), index + 1),
                   lines, hits \ {Least(hits)}, index + 1)

(***************************************************************************)
(* _get_cdft_descriptors.                                                  *)
(***************************************************************************)
\* search_descriptors and cdft_descriptors: the names searched for, in the
\* order of the dictionary, and the key each is returned under
SearchNames == << "Mulliken electronegativity", "Chemical potential",
                  "Hardness (=fundamental gap)", "Electrophilicity index",
                  "Nucleophilicity index" >>
CdftKeys == << "electronegativity", "chemical_potential", "chemical_hardness",
               "electrophilicity_index", "nucleophilicity_index" >>
CdftNames == {CdftKeys[k] : k \in 1..Len(CdftKeys)}

\* pattern.search(data) from position i on, for the pattern
\* r"\b" + re.escape(name) + r":\s+([-\d.]+)\s+\w+": the leftmost occurrence
\* of the name and a colon that starts at a word boundary and is followed by
\* whitespace, a run of [-\d.], whitespace and a word character. The match
\* is case-sensitive (no re.IGNORECASE).
RECURSIVE FindDescriptorFrom(_, _, _)
\* the match for the name and colon at p, whitespace up to w, the group up
\* to g and whitespace up to u
UnitAt(data, name, p, w, g, u) ==
    IF u >= g + 1 /\ u + 1 <= Len(data) /\ CharAt(data, u + 1) \in WordChars
    THEN [matched |-> TRUE, group |-> SubSeq(data, w + 1, g)]
    ELSE FindDescriptorFrom(data, name, p + 1)
GroupAt(data, name, p, w, g) ==
    IF g >= w + 1 THEN UnitAt(data, name, p, w, g, RunEnd(data, Whitespace, g + 1))
    ELSE FindDescriptorFrom(data, name, p + 1)
SpaceAt(data, name, p, w) ==
    IF w >= p + Len(name) + 1
    THEN GroupAt(data, name, p, w, RunEnd(data, SignedNumChars, w + 1))
    ELSE FindDescriptorFrom(data, name, p + 1)
NameAt(data, name, p) ==
    IF p = 0 THEN NoMatch
    ELSE IF p = 1 \/ CharAt(data, p - 1) \notin WordChars
    THEN SpaceAt(data, name, p, RunEnd(data, Whitespace, p + Len(name) + 1))
    ELSE FindDescriptorFrom(data, name, p + 1)
FindDescriptorFrom(data, name, i) == NameAt(data, name, FindFrom(data, name \o ":", i))

\* A search for the pattern with \s* after the colon: the number may follow
\* the colon at once.
RECURSIVE FindLooseFrom(_, _, _)
FindLooseFrom(data, name, i) ==
    LET lit == name \o ":"
        p == FindFrom(data, lit, i)
        w == RunEnd(data, Whitespace, p + Len(lit))
        g == RunEnd(data, SignedNumChars, w + 1)
        u == RunEnd(data, Whitespace, g + 1)
    IN  IF p = 0 THEN NoMatch
        ELSE IF /\ (p = 1 \/ CharAt(data, p - 1) \notin WordChars)
                /\ g >= w + 1
                /\ u >= g + 1
                /\ u + 1 <= Len(data)
                /\ CharAt(data, u + 1) \in WordChars
        THEN [matched |-> TRUE, group |-> SubSeq(data, w + 1, g)]
        ELSE FindLooseFrom(data, name, p + 1)
FindDescriptorLoose(data, name) == FindLooseFrom(data, name, 1)

\* _find_descriptor(data, name)
FindDescriptor(data, name) == FindDescriptorFrom(data, name, 1)

\* A loop that ends at the first name that has no match.
RECURSIVE CdftLoopStopping(_, _, _)
CdftLoopStopping(cd, data, k) ==
    LET m == FindDescriptor(data, SearchNames[k])
        f == ParseFloat(m.group)
    IN  IF k > Len(SearchNames) THEN Ok(cd)
        ELSE IF ~m.matched THEN Ok(cd)
        ELSE IF ~f.ok THEN Fail(cd, "ValueError", CdftKeys[k], k)
        ELSE CdftLoopStopping([cd EXCEPT ![CdftKeys[k]] = PyFloat(f.val)], data, k + 1)

\* for descriptor_name in search_descriptors: ... float(descriptor_value);
\* then the copy into cdft_descriptors. ValueError when a matched group is no
\* number.
RECURSIVE CdftLoop(_, _, _)
\* the loop after the k-th name was searched for with the outcome m, and
\* after float() of its group returned f
CdftValue(cd, data, k, f) ==
    IF ~f.ok THEN Fail(cd, "ValueError", CdftKeys[k], k)
    ELSE CdftLoop([cd EXCEPT ![CdftKeys[k]] = PyFloat(f.val)], data, k + 1)
CdftFound(cd, data, k, m) ==
    IF ~m.matched THEN CdftLoop(cd, data, k + 1)
    ELSE CdftValue(cd, data, k, ParseFloat(m.group))
CdftLoop(cd, data, k) ==
    IF k > Len(SearchNames) THEN Ok(cd)
    ELSE CdftFound(cd, data, k, FindDescriptor(data, SearchNames[k]))

InitialCdft == [k \in CdftNames |-> None]

GetCdftDescriptors(data) == CdftLoop(InitialCdft, data, 1)

(***************************************************************************)
(* get_descriptors.                                                        *)
(***************************************************************************)
\* {**a, **b}
DictMerge(a, b) ==
    [k \in (DOMAIN a) \cup (DOMAIN b) |-> IF k \in DOMAIN b THEN b[k] ELSE a[k]]

(***************************************************************************)
(* The state of one call of get_descriptors.                               *)
(***************************************************************************)
VARIABLES
    pc,                 \* the step get_descriptors is about to run
    contents,           \* read_contents(other_file)
    cdft_contents,      \* read_contents(cdft_file)
    lines,              \* contents.splitlines()
    descriptors,        \* the dictionary _get_other_descriptors fills
    index,              \* the occurrence counter of the running pass
    cdft_descriptors,   \* the dictionary _get_cdft_descriptors returns
    result,             \* what get_descriptors returns (None before)
    err,                \* the exception that ended the call, if any
    wave_files,         \* main: the wave-function files handed to batch_run
    wave_i,             \* batch_run: i, the wave-function files run so far
    folder,             \* the output folder as get_output_files finds it
    output_files,       \* main: the first list get_output_files returned
    cdft_files,         \* main: the second list get_output_files returned
    results_list,       \* main: the records appended so far
    other_file,         \* get_descriptors: the parameter other_file
    cdft_file           \* get_descriptors: the parameter cdft_file

\* the state of main and of batch_run, which a call of get_descriptors
\* leaves alone
mainVars == << wave_files, wave_i, folder, output_files, cdft_files, results_list,
               other_file, cdft_file >>

vars == << pc, contents, cdft_contents, lines, descriptors, index,
           cdft_descriptors, result, err, mainVars >>

\* The state in which a pass leaves the parser: at the next step, or ended by
\* the exception the pass raised.
Goto(r, next) ==
    /\ pc' = IF IsRaise(r.err) THEN "error" ELSE next
    /\ err' = r.err

\* a loop of _get_other_descriptors has left r; a counting loop has left r
Looped(r, next) == descriptors' = r.d /\ Goto(r, next)
Counting(r, next) == index' = r.index /\ Looped(r, next)

\* _get_cdft_descriptors has left r
Searched(r, next) == cdft_descriptors' = r.d /\ Goto(r, next)

\* lines = contents.splitlines() and the scalar loop
ScalarPass ==
    /\ pc = "scalars"
    /\ lines' = SplitLines(contents)
    /\ Looped(ScalarLoop(InitialDescriptors, lines', ScalarHits(lines')), "surface")
    /\ UNCHANGED << contents, cdft_contents, index, cdft_descriptors, result >>
    /\ UNCHANGED mainVars

\* The surface pass without index = 0: the count goes on from where the
\* loop before left it.
SurfacePassCarrying ==
    /\ pc = "surface"
    /\ Counting(SurfaceLoop(descriptors, lines, Hits(lines, SurfaceHeading), index), "charges")
    /\ UNCHANGED << contents, cdft_contents, lines, cdft_descriptors, result >>
    /\ UNCHANGED mainVars

\* index = 0 and the surface-analysis loop
SurfacePass ==
    /\ pc = "surface"
    /\ Counting(SurfaceLoop(descriptors, lines, Hits(lines, SurfaceHeading), 0), "charges")
    /\ UNCHANGED << contents, cdft_contents, lines, cdft_descriptors, result >>
    /\ UNCHANGED mainVars

\* the charge loop
ChargePass ==
    /\ pc = "charges"
    /\ Looped(ChargeLoop(descriptors, lines, ChargeHits(lines)), "fuzzy")
    /\ UNCHANGED << contents, cdft_contents, lines, index, cdft_descriptors, result >>
    /\ UNCHANGED mainVars

\* index = 0, the fuzzy-space loop and return descriptors
FuzzyPass ==
    /\ pc = "fuzzy"
    /\ Counting(FuzzyLoop(descriptors, lines, Hits(lines, FuzzyHeader), 0), "cdft")
    /\ UNCHANGED << contents, cdft_contents, lines, cdft_descriptors, result >>
    /\ UNCHANGED mainVars

\* cdft_descriptors = _get_cdft_descriptors(cdft_contents)
CdftPass ==
    /\ pc = "cdft"
    /\ Searched(GetCdftDescriptors(cdft_contents), "merge")
    /\ UNCHANGED << contents, cdft_contents, lines, descriptors, index, result >>
    /\ UNCHANGED mainVars

\* descriptors = {**other_descriptors, **cdft_descriptors}; return descriptors
Merge ==
    /\ pc = "merge"
    /\ result' = DictMerge(descriptors, cdft_descriptors)
    /\ pc' = "done"
    /\ UNCHANGED << contents, cdft_contents, lines, descriptors, index,
                    cdft_descriptors, err >>
    /\ UNCHANGED mainVars

Next == ScalarPass \/ SurfacePass \/ ChargePass \/ FuzzyPass \/ CdftPass \/ Merge

\* No batch is running: get_descriptors is called on its own.
NoBatch ==
    /\ wave_files = << >>
    /\ wave_i = 0
    /\ folder = << >>
    /\ output_files = << >>
    /\ cdft_files = << >>
    /\ results_list = << >>
    /\ other_file = ""
    /\ cdft_file = ""

\* The call starts with the two texts read, whatever they are.
Start(general, cdft) ==
    /\ NoBatch
    /\ pc = "scalars"
    /\ contents = general
    /\ cdft_contents = cdft
    /\ lines = << >>
    /\ descriptors = InitialDescriptors
    /\ index = 0
    /\ cdft_descriptors = InitialCdft
    /\ result = None
    /\ err = NoError

(***************************************************************************)
(* The reports the call is started on: texts put together from lines and   *)
(* sections as the analysis program prints them, and from damaged ones.    *)
(***************************************************************************)
\* the sequences of at most n elements of S
SeqsUpTo(S, n) == UNION {[1..k -> S] : k \in 0..n}

\* the text whose lines are the given ones, each ended by a newline
RECURSIVE JoinLines(_)
JoinLines(ls) == IF ls = << >> THEN "" ELSE Head(ls) \o "\n" \o JoinLines(Tail(ls))

\* the text made of the given blocks of lines
RECURSIVE JoinBlocks(_)
JoinBlocks(bs) == IF bs = << >> THEN "" ELSE JoinLines(Head(bs)) \o JoinBlocks(Tail(bs))

\* n empty lines
Blank(n) == [k \in 1..n |-> ""]

AtomsLine == " Atoms:      2,  Basis functions:     48,  GTFs:     96"

\* one well-formed line for each branch of the scalar pass, in the order of
\* the branches
ScalarSection ==
    << AtomsLine,
       " Molecule weight:        18.015 Da",
       " Total energy:     -76.419 Hartree,   Virial ratio:  2.005",
       " Orbital     5 is HOMO, energy:   -0.317 a.u.   -8.63 eV",
       " Orbital     6 is LUMO, energy:    0.052 a.u.    1.41 eV",
       " HOMO-LUMO gap:    0.369 a.u.   10.04 eV",
       " Radius of gyration:    0.621 Angstrom",
       " Molecular planarity parameter (MPP) is    0.012 Angstrom",
       " Span of deviation from plane (SDP) is    0.034 Angstrom",
       " Diameter of the system:    1.514 Angstrom",
       " Sphericity:   0.61",
       " Magnitude of molecular dipole moment (a.u.&Debye):    0.77    1.957" >>
GoodScalarLines == {ScalarSection[k] : k \in 1..Len(ScalarSection)}

\* scalar lines that lack a marker or the number
BadScalarLines ==
    { " Molecule weight:        18.015",
      " Molecule weight:        18.015 amu",
      " Total energy:     -76.419 a.u.",
      " Atoms:  two",
      " Orbital     5 is HOMO",
      " Sphericity:  -0.61" }

ScalarLines == GoodScalarLines \cup BadScalarLines

\* the surface-analysis summaries: volume and area, ESP, and two of the
\* ALIE / LEA / LEAE kind with different numbers
VolumeBlock ==
    << SurfaceHeading, "",
       " Volume:    120.5 Bohr^3  (   17.856 Angstrom^3)", "",
       " Overall surface area:     150.2 Bohr^2  (   42.06 Angstrom^2)" >>
EspBlock ==
    << SurfaceHeading >> \o Blank(3) \o
    << " Minimal value:    -38.5 kcal/mol   Maximal value:     45.2 kcal/mol" >> \o
    Blank(12) \o
    << " Molecular polarity index (MPI):    0.55 eV (   12.683 kcal/mol)" >>
AlieBlock ==
    << SurfaceHeading >> \o Blank(3) \o
    << " Minimal value:    8.1 eV,   Maximal value:    14.2 eV" >> \o Blank(3) \o
    << " Average value:    0.41 a.u. (   11.157 eV,   257.3 kcal/mol)" >>
LeaBlock ==
    << SurfaceHeading >> \o Blank(3) \o
    << " Minimal value:    -2.3 eV,   Maximal value:    1.7 eV" >> \o Blank(3) \o
    << " Average value:    -0.02 a.u. (   -0.544 eV,   -12.5 kcal/mol)" >>
\* a summary cut off after its heading, and ones whose number lacks a marker
CutBlock == << SurfaceHeading >>
NoVolumeEndBlock ==
    << SurfaceHeading, "", " Volume:    120.5 a.u.", "",
       " Overall surface area:     150.2 Bohr^2  (   42.06 Angstrom^2)" >>
NoVolumeBeginBlock ==
    << SurfaceHeading, "", " Vol.:    120.5 Bohr^3", "",
       " Overall surface area:     150.2 Bohr^2  (   42.06 Angstrom^2)" >>

SurfaceBlocks == { VolumeBlock, EspBlock, AlieBlock, LeaBlock, CutBlock,
                   NoVolumeEndBlock, NoVolumeBeginBlock }

\* the summaries the branch of the k-th heading can read
ReadableAt(k) ==
    CASE k = 1 -> {VolumeBlock} [] k = 2 -> {EspBlock} [] OTHER -> {AlieBlock, LeaBlock}

\* the atom sections, for the two atoms of AtomsLine
HirshfeldBlock ==
    << " Citation of ADCH: Tian Lu, Feiwu Chen, J. Theor. Comput. Chem., 11, 163" >> \o
    Blank(7) \o
    << " Hirshfeld charge of atom     1(C ) is    -0.081",
       " Hirshfeld charge of atom     2(O ) is     0.081" >>
AdchBlock ==
    << " Note: The values shown after \"Corrected charge\" are ADCH charges, the others are before" >> \o
    Blank(5) \o
    << " Atom     1(C ):    -0.165", " Atom     2(O ):     0.165" >>
RespBlock ==
    << " Stage 2 of standard RESP fitting is skipped since no atom needs to be fitted" >> \o
    Blank(2) \o
    << "     1(C )   -0.12", "     2(O )    0.12" >>
SpinBlock ==
    << " Population of atoms:",
       " Atom     1(C )    Population:    0.25",
       " Atom     2(O )    Population:    0.75" >>
FuzzyBlock == << FuzzyHeader \o "     % of sum", "     1(C )    5.84", "     2(O )    8.16" >>
LaplacianBlock == << FuzzyHeader, "     1(C )    -0.31", "     2(O )    -0.47" >>
KineticBlock == << FuzzyHeader, "     1(C )    37.2", "     2(O )    74.6" >>
\* a fuzzy section of other atoms, one with a single row, and ones with a row
\* that has no value, a value that is no number, or nothing at all
OtherAtomsBlock == << FuzzyHeader, "     1(N )    7.1", "     2(H )    0.9" >>
OneRowBlock == << FuzzyHeader, "     1(C )    5.84" >>
ShortRowBlock == << FuzzyHeader, "     1(C )", "     2(O )    8.16" >>
NotNumberBlock == << FuzzyHeader, "     1(C )    5.84", "     2(O )    n/a" >>
BlankRowBlock == << FuzzyHeader, "", "     2(O )    8.16" >>
BadRespBlock ==
    << " Stage 2 of standard RESP fitting is skipped since no atom needs to be fitted" >> \o
    Blank(2) \o
    << "     1(C )   -0.12", "     2(O )" >>

AtomBlocks == { HirshfeldBlock, AdchBlock, RespBlock, SpinBlock, FuzzyBlock,
                OtherAtomsBlock, OneRowBlock, ShortRowBlock, NotNumberBlock,
                BlankRowBlock, BadRespBlock }

\* the lines of the CDFT report as the analysis program prints them
GoodCdftLines ==
    { " Mulliken electronegativity:    0.151 Hartree,   4.109 eV",
      " Chemical potential:   -0.151 Hartree,  -4.109 eV",
      " Hardness (=fundamental gap):    0.41 Hartree,  11.157 eV",
      " Electrophilicity index:    0.027 Hartree,   0.756 eV",
      " Nucleophilicity index:    0.107 Hartree,   2.912 eV" }
\* the same name with another value after several spaces and after one, in
\* another case, with no space after the colon, with no number, with no
\* unit, and inside a longer word
OtherCdftLines ==
    { "Electrophilicity index:   1.234  eV",
      "Electrophilicity index: 1.234 eV",
      "electrophilicity INDEX:   1.234  eV",
      "Electrophilicity index:1.234 eV",
      " Electrophilicity index:   - eV",
      " Electrophilicity index:   5.5",
      " nonElectrophilicity index:   6.6 eV" }
CdftLines == GoodCdftLines \cup OtherCdftLines

CanonicalCdft ==
    JoinLines(<< " Mulliken electronegativity:    0.151 Hartree,   4.109 eV",
                 " Chemical potential:   -0.151 Hartree,  -4.109 eV",
                 " Hardness (=fundamental gap):    0.41 Hartree,  11.157 eV",
                 " Electrophilicity index:    0.027 Hartree,   0.756 eV",
                 " Nucleophilicity index:    0.107 Hartree,   2.912 eV" >>)

\* the sections of a whole report, in the order the analysis program prints
\* them: each scalar line, the five summaries, the four charge sections and
\* the three fuzzy sections
FullReport ==
    [k \in 1..Len(ScalarSection) |-> << ScalarSection[k] >>] \o
    << VolumeBlock, EspBlock, AlieBlock, LeaBlock, AlieBlock,
       HirshfeldBlock, AdchBlock, RespBlock, SpinBlock,
       FuzzyBlock, LaplacianBlock, KineticBlock >>

\* the sequence bs without the elements at the positions drop
Without(bs, drop) ==
    LET keep == (1..Len(bs)) \ drop
    IN  [k \in 1..Cardinality(keep) |->
            bs[CHOOSE i \in keep : Cardinality({j \in keep : j <= i}) = k]]

\* The bounds of the reports drawn.
MaxScalarLines == 2
MaxHeadings == 5
MaxSections == 2
MaxCdftLines == 2

ScalarReports == {JoinLines(ls) : ls \in SeqsUpTo(ScalarLines, MaxScalarLines)}
\* summaries the branches can read, up to MaxHeadings of them, alone or
\* followed by any one summary
ReadableRuns ==
    UNION {{bs \in [1..k -> SurfaceBlocks] : \A j \in 1..k : bs[j] \in ReadableAt(j)} :
           k \in 0..MaxHeadings}
SurfaceReports ==
    {JoinBlocks(bs \o tail) : bs \in ReadableRuns,
                              tail \in {<< >>} \cup {<< b >> : b \in SurfaceBlocks}}
AtomReports ==
    {JoinBlocks(h \o bs) : h \in {<< >>, << << AtomsLine >> >>},
                           bs \in SeqsUpTo(AtomBlocks, MaxSections)}
CdftReports == {JoinLines(ls) : ls \in SeqsUpTo(CdftLines, MaxCdftLines)}
\* The charge sections once more, for other atoms: the same anchor line and
\* other rows.
HirshfeldAgain ==
    << HirshfeldBlock[1] >> \o Blank(7) \o
    << " Hirshfeld charge of atom     1(N ) is    -0.25",
       " Hirshfeld charge of atom     2(H ) is     0.25" >>
AdchAgain ==
    << AdchBlock[1] >> \o Blank(5) \o
    << " Atom     1(N ):    -0.35", " Atom     2(H ):     0.35" >>
RespAgain ==
    << RespBlock[1] >> \o Blank(2) \o << "     1(N )   -0.45", "     2(H )    0.45" >>
SpinAgain ==
    << SpinBlock[1],
       " Atom     1(N )    Population:    0.55",
       " Atom     2(H )    Population:    0.45" >>
\* and one whose anchor line has the anchor and other text after it
HirshfeldOther ==
    << " Citation of ADCH: Tian Lu, Feiwu Chen, J. Theor. Comput. Chem., 11, 163-183 (2012)" >> \o
    Blank(7) \o
    << " Hirshfeld charge of atom     1(N ) is    -0.25",
       " Hirshfeld charge of atom     2(H ) is     0.25" >>

\* a report with a charge section twice, with different rows
RepeatedSections ==
    { << HirshfeldBlock, HirshfeldAgain >>, << AdchBlock, AdchAgain >>,
      << RespBlock, RespAgain >>, << SpinBlock, SpinAgain >>,
      << HirshfeldBlock, HirshfeldOther >> }
RepeatReports ==
    {JoinBlocks(<< << AtomsLine >>, p[1], p[2] >>) : p \in RepeatedSections} \cup
    {JoinBlocks(<< << AtomsLine >>, p[2], p[1] >>) : p \in RepeatedSections}

\* Reports with the atom count after an atom section, and with a second
\* count, of one atom, before or after it.
OneAtomLine == " Atoms:      1,  Basis functions:     24,  GTFs:     48"
LateAtomsReports ==
    {JoinBlocks(<< h, b, << t >> >>) :
        h \in {<< >>, << AtomsLine >>, << OneAtomLine >>},
        b \in {HirshfeldBlock, AdchBlock, RespBlock, SpinBlock, FuzzyBlock},
        t \in {AtomsLine, OneAtomLine}}

\* the whole report, and the whole report with any one section missing
FullReports ==
    {JoinBlocks(FullReport)} \cup
    {JoinBlocks(Without(FullReport, {k})) : k \in 1..Len(FullReport)}

Init ==
    \/ \E g \in ScalarReports : Start(g, CanonicalCdft)
    \/ \E g \in SurfaceReports : Start(g, CanonicalCdft)
    \/ \E g \in AtomReports : Start(g, CanonicalCdft)
    \/ \E c \in CdftReports : Start("", c)
    \/ \E g \in FullReports : Start(g, CanonicalCdft)
    \/ \E g \in RepeatReports : Start(g, CanonicalCdft)
    \/ \E g \in LateAtomsReports : Start(g, CanonicalCdft)

Spec == Init /\ [][Next]_vars

(***************************************************************************)
(* main and batch_run: the batch over the samples of a folder.             *)
(***************************************************************************)
\* An exception raised outside the parser.
RaiseIn(kind, where) == Raise(kind, where, 0)

\* One turn of the loop of batch_run can end in three ways: _run and the
\* rename both succeed, _run finds no wave-function file (ValueError), or
\* the analysis program has left no CDFT.txt to rename (FileNotFoundError).
RunOutcomes == {"ok", "ValueError", "FileNotFoundError"}

\* main goes on to the listing, or ends with the exception
Proceed(e, next) ==
    /\ pc' = IF IsRaise(e) THEN "aborted" ELSE next
    /\ err' = e

\* for i, wave_file in enumerate(wave_files): one turn with the outcome o
BatchRunTurn(o) ==
    IF o = "ok" THEN wave_i' = wave_i + 1 /\ UNCHANGED << pc, err >>
    ELSE UNCHANGED wave_i /\ Proceed(RaiseIn(o, "batch_run"), "batch_run")

BatchRun ==
    /\ pc = "batch_run"
    /\ wave_i < Len(wave_files)
    /\ \E o \in RunOutcomes : BatchRunTurn(o)
    /\ UNCHANGED << contents, cdft_contents, lines, descriptors, index,
                    cdft_descriptors, result, wave_files, folder, output_files,
                    cdft_files, results_list, other_file, cdft_file >>

\* batch_run returns and main drops what it returned; move_files. Neither
\* wave_files nor i is read again.
BatchRunReturn ==
    /\ pc = "batch_run"
    /\ wave_i = Len(wave_files)
    /\ pc' = "listing"
    /\ wave_files' = << >>
    /\ wave_i' = 0
    /\ UNCHANGED << contents, cdft_contents, lines, descriptors, index,
                    cdft_descriptors, result, err, folder, output_files,
                    cdft_files, results_list, other_file, cdft_file >>

\* glob.glob(os.path.join(output_dir, '*' + suffix)): the files found, which
\* the listing returns in any order
EndsWith(s, suffix) ==
    Len(s) >= Len(suffix) /\ SubSeq(s, Len(s) - Len(suffix) + 1, Len(s)) = suffix
Glob(dir, suffix) == {x \in DOMAIN dir : EndsWith(x, suffix)}
Orders(S) ==
    {o \in [1..Cardinality(S) -> S] : \A x \in S : \E k \in 1..Cardinality(S) : o[k] = x}

\* set(all_txt_files) - set(cdft_txt_files)
OtherTxtFiles(dir) == Glob(dir, ".txt") \ Glob(dir, "-CDFT.txt")

\* key=lambda x: int(os.path.basename(x).split('.')[0])
SortKey(x) == ParseInt(SplitOn(x, ".")[1])

\* other_txt_files.sort(key=...)
Sorted(S) ==
    CHOOSE o \in Orders(S) :
        \A j, k \in 1..Cardinality(S) : j < k => SortKey(o[j]).val <= SortKey(o[k]).val

\* return cdft_txt_files, other_txt_files
GetOutputFilesReturn(cdft_txt_files, dir) == << cdft_txt_files, Sorted(OtherTxtFiles(dir)) >>

\* output_files, cdft_files = get_output_files(...)
Unpack(returned) ==
    /\ output_files' = returned[1]
    /\ cdft_files' = returned[2]
    /\ Proceed(NoError, "loop")

\* get_output_files on the folder dir, whose listing returns the CDFT files
\* in some order: ValueError when a file name does not start with a number
Listing(dir) ==
    IF \E x \in OtherTxtFiles(dir) : ~SortKey(x).ok
    THEN UNCHANGED << output_files, cdft_files >> /\
         Proceed(RaiseIn("ValueError", "get_output_files"), "loop")
    ELSE \E cdft_txt_files \in Orders(Glob(dir, "-CDFT.txt")) :
            Unpack(GetOutputFilesReturn(cdft_txt_files, dir))

(***************************************************************************)
(* The folders main is run on: the reports of some samples, the CDFT       *)
(* report of the last sample there or not, and a file more whose name is   *)
(* no number. A report file holds a sound report or, misplaced, a CDFT     *)
(* text; a file named as a CDFT report holds any of the texts.             *)
(***************************************************************************)
\* the names of the samples, in the order they are added to a folder
SampleStems == << "2", "10", "1", "3" >>

\* the most samples a folder holds
MaxSamples == 2

ReportName(stem) == stem \o ".txt"
CdftName(stem) == stem \o "-CDFT.txt"
WaveName(stem) == stem \o ".fchk"

\* a report all of whose sections can be read, and one with a row that has
\* no value
SoundReport == JoinBlocks(<< << AtomsLine >>, VolumeBlock, EspBlock, FuzzyBlock >>)
BrokenReport == JoinBlocks(<< << AtomsLine >>, VolumeBlock, ShortRowBlock >>)
SampleTexts == {SoundReport, BrokenReport, CanonicalCdft}
ReportTexts == {SoundReport, CanonicalCdft}

\* the texts the file x can hold
TextsOf(x) == IF EndsWith(x, "-CDFT.txt") THEN SampleTexts ELSE ReportTexts

\* the folders with the files of the set S
FoldersWith(S) == {dir \in [S -> SampleTexts] : \A x \in S : dir[x] \in TextsOf(x)}

\* the files of n samples, the first m of them with a CDFT report
FolderNames(n, m) ==
    {ReportName(SampleStems[k]) : k \in 1..n} \cup {CdftName(SampleStems[k]) : k \in 1..m}

\* the folders of n samples
FoldersOf(n) ==
    UNION {FoldersWith(FolderNames(n, m)) : m \in {k \in 0..n : k >= n - 1}}

SampleFolders == UNION {FoldersOf(n) : n \in 0..MaxSamples}

\* the folder dir with one more file
WithFile(dir, name, text) ==
    [x \in DOMAIN dir \cup {name} |-> IF x = name THEN text ELSE dir[x]]

StrayFolders ==
    {WithFile(dir, "water.txt", SoundReport) : dir \in FoldersWith(FolderNames(1, 1))}

Folders == SampleFolders \cup StrayFolders

\* output_files, cdft_files = get_output_files(output_folder), on whatever
\* the folder holds by then
GetOutputFiles ==
    /\ pc = "listing"
    /\ \E dir \in Folders : folder' = dir /\ Listing(dir)
    /\ UNCHANGED << contents, cdft_contents, lines, descriptors, index,
                    cdft_descriptors, result, wave_files, wave_i, results_list,
                    other_file, cdft_file >>

\* zip(output_files, cdft_files) ends with the shorter list
Shorter(a, b) == IF Len(a) <= Len(b) THEN Len(a) ELSE Len(b)

\* get_descriptors(cdft_file=cdft_file, other_file=output_file) on the k-th
\* pair, up to the two read_contents. The names the call has not yet
\* assigned keep what the call before left in them.
CallOn(k) ==
    /\ other_file' = output_files[k]
    /\ cdft_file' = cdft_files[k]
    /\ contents' = folder[output_files[k]]
    /\ cdft_contents' = folder[cdft_files[k]]

\* for output_file, cdft_file in zip(output_files, cdft_files): the next turn
Call ==
    /\ pc = "loop"
    /\ Len(results_list) < Shorter(output_files, cdft_files)
    /\ CallOn(Len(results_list) + 1)
    /\ pc' = "scalars"
    /\ UNCHANGED << lines, descriptors, index, cdft_descriptors, result, err,
                    wave_files, wave_i, folder, output_files, cdft_files,
                    results_list >>

\* result = get_descriptors(...) has returned; results_list.append(result)
AppendResult ==
    /\ pc = "done"
    /\ results_list' = Append(results_list, result)
    /\ pc' = "loop"
    /\ UNCHANGED << contents, cdft_contents, lines, descriptors, index,
                    cdft_descriptors, result, err, wave_files, wave_i, folder,
                    output_files, cdft_files, other_file, cdft_file >>

\* the loop is over: remove_files and exports_data(results_list)
EndLoop ==
    /\ pc = "loop"
    /\ Len(results_list) = Shorter(output_files, cdft_files)
    /\ pc' = "export"
    /\ UNCHANGED << contents, cdft_contents, lines, descriptors, index,
                    cdft_descriptors, result, err, mainVars >>

\* get_descriptors has raised: nothing in the loop catches the exception,
\* which ends main
Abort ==
    /\ pc = "error"
    /\ pc' = "aborted"
    /\ UNCHANGED << contents, cdft_contents, lines, descriptors, index,
                    cdft_descriptors, result, err, mainVars >>

MainNext ==
    \/ BatchRun \/ BatchRunReturn \/ GetOutputFiles \/ Call
    \/ ScalarPass \/ SurfacePass \/ ChargePass \/ FuzzyPass \/ CdftPass \/ Merge
    \/ AppendResult \/ EndLoop \/ Abort

\* the wave-function files of the first n samples
WaveFiles(n) == [k \in 1..n |-> WaveName(SampleStems[k])]

\* main after the questions: with 'y' batch_run is called on the files
\* found, with 'n' the folder named is listed at once
MainStart(model, files) ==
    /\ pc = IF model = "y" THEN "batch_run" ELSE "listing"
    /\ wave_files = files
    /\ wave_i = 0
    /\ folder = << >>
    /\ output_files = << >>
    /\ cdft_files = << >>
    /\ results_list = << >>
    /\ other_file = ""
    /\ cdft_file = ""
    /\ contents = ""
    /\ cdft_contents = ""
    /\ lines = << >>
    /\ descriptors = InitialDescriptors
    /\ index = 0
    /\ cdft_descriptors = InitialCdft
    /\ result = None
    /\ err = NoError

MainInit ==
    \/ MainStart("n", << >>)
    \/ \E n \in 1..MaxSamples : MainStart("y", WaveFiles(n))

MainSpec == MainInit /\ [][MainNext]_vars

(***************************************************************************)
(* What the properties below speak of.                                     *)
(***************************************************************************)
Steps == << "scalars", "surface", "charges", "fuzzy", "cdft", "merge", "done" >>
StepNo(p) == CHOOSE k \in 1..Len(Steps) : Steps[k] = p

\* the step p has run and no exception has ended the call
Past(p) == pc # "error" /\ StepNo(pc) > StepNo(p)

\* the k-th element of a set of line numbers in text order, 0 if there are
\* fewer than k
Nth(H, k) ==
    LET S == {i \in H : Cardinality({j \in H : j <= i}) = k}
    IN  IF S = {} THEN 0 ELSE CHOOSE i \in S : TRUE

Range(f) == {f[x] : x \in DOMAIN f}

\* the logical section a surface descriptor belongs to
SectionOf(key) ==
    CASE key \in {"volume", "surface_area"} -> 1
      [] key \in {"ESP_min", "ESP_max", "MPI"} -> 2
      [] key \in {"ALIE_min", "ALIE_max", "ALIE_avg"} -> 3
      [] key \in {"LEA_min", "LEA_max", "LEA_avg"} -> 4
      [] key \in {"LEAE_min", "LEAE_max"} -> 5

\* the logical section a fuzzy-space series belongs to
HeaderOf(key) ==
    CASE key = "electron_density" -> 1
      [] key = "Laplacian_electron_density" -> 2
      [] key = "kinetic_energy_density" -> 3

\* how a surface descriptor is read from the lines under its heading
StepOf(key) ==
    CHOOSE st \in UNION {Range(SurfaceSteps(k)) : k \in 1..5} : st.key = key

(***************************************************************************)
(* C1: for the summary heading and for the atomic-space header, the k-th   *)
(* occurrence in text order fills the fields of the k-th logical section   *)
(* and no others: once the pass has run, each field of section k holds     *)
(* what is read under the k-th occurrence, and is None when there are      *)
(* fewer than k occurrences.                                               *)
(***************************************************************************)
SurfaceByRank ==
    LET H == Hits(lines, SurfaceHeading)
    IN  \A key \in SurfaceNames :
            LET h == Nth(H, SectionOf(key))
                e == Extract(InitialDescriptors, lines, h, StepOf(key))
            IN  IF h = 0 THEN descriptors[key] = None
                ELSE ~IsRaise(e.err) /\ descriptors[key] = e.d[key]

FuzzyByRank ==
    LET H == Hits(lines, FuzzyHeader)
    IN  \A key \in FuzzyNames :
            LET h == Nth(H, HeaderOf(key))
                e == ReadFuzzy(Window(lines, h - 1, 1, descriptors["atom_num"].val), key)
            IN  IF h = 0 THEN descriptors[key] = None
                ELSE e.kind = "" /\ descriptors[key] = e.mol

\* C1: the k-th occurrence of a rank-dispatched anchor fills the fields of
\* the k-th logical section only, and no two occurrences share a rank.
C1_RankDispatch ==
    /\ Past("surface") => SurfaceByRank
    /\ Past("fuzzy") => FuzzyByRank

\* a returned record with all five summaries and all three fuzzy sections
\* read, where the sections of equal layout carry different values
C1_Witness ==
    /\ pc = "done"
    /\ index = 3
    /\ Cardinality(Hits(lines, SurfaceHeading)) = 5
    /\ descriptors["ALIE_min"] # None
    /\ descriptors["LEA_min"] # None
    /\ descriptors["LEAE_min"] # None
    /\ descriptors["ALIE_min"] # descriptors["LEA_min"]
    /\ descriptors["electron_density"] # None
    /\ descriptors["Laplacian_electron_density"] # None
    /\ descriptors["kinetic_energy_density"] # None
    /\ descriptors["electron_density"] # descriptors["Laplacian_electron_density"]
    /\ descriptors["kinetic_energy_density"] # descriptors["Laplacian_electron_density"]

(***************************************************************************)
(* C2: in every record _get_other_descriptors returns, every per-atom      *)
(* series that is not None has exactly atom_num labels and atom_num        *)
(* values, wherever in the text its anchor lies.                           *)
(***************************************************************************)
Series == {key \in AtomSeriesNames : descriptors[key] # None}

\* C2: every non-absent per-atom series of a returned record has exactly
\* atom_num entries.
C2_SeriesLength ==
    Past("fuzzy") =>
        \A key \in Series :
            /\ Len(descriptors[key].atoms) = descriptors["atom_num"].val
            /\ Len(descriptors[key].charges) = descriptors["atom_num"].val

(***************************************************************************)
(* C3: in every record _get_other_descriptors returns, any two per-atom    *)
(* series that are not None carry the same labels in the same order.       *)
(***************************************************************************)
\* C3: the label sequences of any two non-absent per-atom series of a
\* returned record are element-wise identical.
C3_SameLabels ==
    Past("fuzzy") =>
        \A a \in Series : \A b \in Series :
            descriptors[a].atoms = descriptors[b].atoms

(***************************************************************************)
(* C4: an anchor that does not occur in the general report leaves its      *)
(* field(s) None and raises no error, and the fields whose anchors do      *)
(* occur are populated in the record returned.                             *)
(***************************************************************************)
\* The descriptors whose anchor occurs in the text: a scalar whose branch
\* handles some line, the surface descriptors of the sections 1..n for n
\* summary headings, the charges whose branch handles some line, and the
\* fuzzy-space series of the sections 1..n for n atomic-space headers.
Anchored ==
    LET ns == Cardinality(Hits(lines, SurfaceHeading))
        nf == Cardinality(Hits(lines, FuzzyHeader))
    IN  ({ScalarBranch(lines[i]) : i \in 1..Len(lines)} \ {""})
        \cup {key \in SurfaceNames : SectionOf(key) <= ns}
        \cup {ChargeSections[ChargeBranch(lines[i])].key : i \in ChargeHits(lines)}
        \cup {key \in FuzzyNames : HeaderOf(key) <= nf}

\* the descriptors an extraction depends on: its own, and atom_num for a
\* per-atom series
Needs(key) == {key} \cup (IF key \in AtomSeriesNames THEN {"atom_num"} ELSE {})

\* in a returned record, exactly the descriptors whose anchor occurs are
\* populated
PopulatedIffAnchored(present) ==
    \A key \in OtherNames : (descriptors[key] # None) <=> (key \in present)

\* the call was ended by the missing atom count: a per-atom section is
\* there, ' Atoms:  ' is not, and TypeError was raised
MissingAtomCount(present) ==
    /\ err.kind = "TypeError"
    /\ err.field \in AtomSeriesNames \cap present
    /\ "atom_num" \notin present

\* C4 as stated: an absent anchor leaves its fields None and never makes the
\* call fail: an exception is only raised by an extraction whose anchors
\* are all in the text.
C4_AbsenceNeverRaises ==
    LET present == Anchored
    IN  /\ pc = "cdft" => PopulatedIffAnchored(present)
        /\ (pc = "error" /\ err.field \in OtherNames) => Needs(err.field) \subseteq present

\* C4: an absent anchor leaves its fields None and the fields whose anchors
\* are present are populated in the record returned; an absent anchor makes
\* the call fail in one case only, ' Atoms:  ' absent while a per-atom
\* anchor is present, which raises TypeError and returns no record.
C4_AbsentStaysNone ==
    LET present == Anchored
    IN  /\ pc = "cdft" =>
            /\ PopulatedIffAnchored(present)
            /\ ("atom_num" \in present \/ AtomSeriesNames \cap present = {})
        /\ (pc = "error" /\ err.field \in OtherNames) =>
            \/ Needs(err.field) \subseteq present
            \/ MissingAtomCount(present)

\* a record is returned for a report that lacks the weight line and has the
\* other sections
C4_Witness ==
    /\ pc = "cdft"
    /\ descriptors["mass"] = None
    /\ descriptors["total_energy"] # None
    /\ descriptors["LEAE_max"] # None
    /\ descriptors["RESP_charge"] # None
    /\ descriptors["kinetic_energy_density"] # None

(***************************************************************************)
(* C5: a line that matches the anchor of a marker-delimited scalar (the    *)
(* weight, the total energy, a line of a surface summary) but lacks its    *)
(* begin or its end marker yields None for the field and raises nothing.   *)
(***************************************************************************)
\* the markers around the number of a scalar the scalar pass reads by split
MarkersOf(key) ==
    CASE key = "mass" -> {": ", " Da"}
      [] key = "total_energy" -> {": ", "Hartree"}

\* line i is handled by the branch of a marker-delimited scalar and lacks
\* one of its markers
ScalarLacksMarker(i) ==
    LET b == ScalarBranch(lines[i])
    IN  /\ b \in {"mass", "total_energy"}
        /\ \E m \in MarkersOf(b) : ~Contains(lines[i], m)

\* the line a surface descriptor is read from, under the heading on line i,
\* is there and lacks one of its markers
SurfaceLacksMarker(key, i) ==
    LET st == StepOf(key)
    IN  /\ i + st.off <= Len(lines)
        /\ \E m \in {st.begin, st.end} : ~Contains(lines[i + st.off], m)

\* C5: a scalar line that lacks its begin or end marker raises no exception
\* and yields None for its field.
C5_MissingMarkerIsAbsent ==
    /\ pc = "error" =>
        /\ err.field \in {"mass", "total_energy"} => ~ScalarLacksMarker(err.line)
        /\ err.field \in SurfaceNames => ~SurfaceLacksMarker(err.field, err.line)
    /\ pc = "surface" =>
        \A key \in {"mass", "total_energy"} :
            LET H == {i \in 1..Len(lines) : ScalarBranch(lines[i]) = key}
            IN  (H # {} /\ ScalarLacksMarker(Greatest(H))) => descriptors[key] = None

(***************************************************************************)
(* C6: _read_charge and _read_fuzzy return one (label, value) pair per     *)
(* line of the window, in the order of the window, or raise: a line with   *)
(* too few tokens, with a value that is no number, or with nothing on it   *)
(* is never passed over.                                                   *)
(***************************************************************************)
\* The label and the value token of a row in each layout (tokens numbered
\* from 1).
LabelOf(t, layout) ==
    CASE layout = "Hirshfeld" -> Strip(t[5] \o t[6])
      [] layout = "ADCH" -> t[2] \o ")"
      [] layout = "spin" -> t[2] \o t[3]
      [] OTHER -> t[1] \o t[2]
ValueAt(layout) ==
    CASE layout = "Hirshfeld" -> 8
      [] layout = "ADCH" -> 4
      [] layout = "spin" -> 5
      [] OTHER -> 3

\* the row has the tokens the layout reads, and its value token is a number
WellFormed(row, layout) ==
    LET t == SplitWS(row)
    IN  Len(t) >= ValueAt(layout) /\ ParseFloat(t[ValueAt(layout)]).ok

\* the series has one pair per row, in the order of the rows
PairPerRow(mol, rows, layout) ==
    /\ Len(mol.atoms) = Len(rows)
    /\ Len(mol.charges) = Len(rows)
    /\ \A j \in 1..Len(rows) :
          LET t == SplitWS(rows[j])
          IN  /\ mol.atoms[j] = LabelOf(t, layout)
              /\ mol.charges[j] = ParseFloat(t[ValueAt(layout)]).val

\* the windows the atom passes read: under each charge anchor, and under
\* the first three atomic-space headers
ChargeWindow(i) ==
    Window(lines, IndexOf(lines, lines[i]) - 1,
           ChargeSections[ChargeBranch(lines[i])].off, descriptors["atom_num"].val)
FuzzyWindow(i) == Window(lines, i - 1, 1, descriptors["atom_num"].val)

\* C6: a series the readers return has exactly one pair per window line in
\* window order; a window with a malformed line makes the reader raise.
C6_OnePairPerRow ==
    /\ pc = "fuzzy" =>
          \A i \in ChargeHits(lines) :
              LET sec == ChargeSections[ChargeBranch(lines[i])]
                  rows == ChargeWindow(i)
                  last == \A j \in ChargeHits(lines) :
                              ChargeBranch(lines[j]) = ChargeBranch(lines[i]) => j <= i
              IN  /\ \A j \in 1..Len(rows) : WellFormed(rows[j], sec.layout)
                  /\ last => PairPerRow(descriptors[sec.key], rows, sec.layout)
    /\ pc = "cdft" =>
          LET H == Hits(lines, FuzzyHeader)
          IN  \A key \in FuzzyNames :
                  LET i == Nth(H, HeaderOf(key))
                      rows == FuzzyWindow(i)
                  IN  i # 0 =>
                        /\ \A j \in 1..Len(rows) : WellFormed(rows[j], "fuzzy")
                        /\ PairPerRow(descriptors[key], rows, "fuzzy")
    /\ (pc = "error" /\ err.field \in ChargeNames /\ err.kind # "TypeError") =>
          \E j \in 1..Len(ChargeWindow(err.line)) :
              ~WellFormed(ChargeWindow(err.line)[j],
                          ChargeSections[ChargeBranch(lines[err.line])].layout)
    /\ (pc = "error" /\ err.field \in FuzzyNames /\ err.kind # "TypeError") =>
          \E j \in 1..Len(FuzzyWindow(err.line)) :
              ~WellFormed(FuzzyWindow(err.line)[j], "fuzzy")

\* the second row of a RESP window lacks its value, the first is well
\* formed: the reader raised and no series was stored
C6_Witness ==
    /\ pc = "error"
    /\ err.field = "RESP_charge"
    /\ err.kind = "IndexError"
    /\ Len(ChargeWindow(err.line)) = 2
    /\ WellFormed(ChargeWindow(err.line)[1], "RESP")
    /\ ~WellFormed(ChargeWindow(err.line)[2], "RESP")
    /\ descriptors["RESP_charge"] = None

(***************************************************************************)
(* C7: a per-atom anchor in a report without ' Atoms:  ' makes             *)
(* _get_other_descriptors fail and return no record, and this is the only  *)
(* way the call fails: every other miss leaves a field None.               *)
(***************************************************************************)
\* C7: the call fails when, and only when, a per-atom anchor is present and
\* ' Atoms:  ' is not.
C7_OnlyOrderingFails ==
    LET present == Anchored
        unresolved == "atom_num" \notin present /\ AtomSeriesNames \cap present # {}
    IN  /\ pc = "cdft" => ~unresolved
        /\ (pc = "error" /\ err.field \in OtherNames) => unresolved

(***************************************************************************)
(* C8: each of the five names of the CDFT report is looked up on its own:  *)
(* a name with no match of its pattern is None and raises nothing, the     *)
(* other names have the values of their own matches, and of several        *)
(* matches of a name the first in the text supplies the value.             *)
(***************************************************************************)
\* The pattern of a name matches at position p of the text: the name and a
\* colon, not preceded by a word character, then whitespace, a run of
\* [-\d.], whitespace and a word character.
NumberAt(data, name, p) ==
    LET w == RunEnd(data, Whitespace, p + Len(name) + 1)
    IN  [from |-> w + 1, to |-> RunEnd(data, SignedNumChars, w + 1)]

MatchAt(data, name, p) ==
    LET n == NumberAt(data, name, p)
        u == RunEnd(data, Whitespace, n.to + 1)
    IN  /\ p + Len(name) <= Len(data)
        /\ SubSeq(data, p, p + Len(name)) = name \o ":"
        /\ p > 1 => CharAt(data, p - 1) \notin WordChars
        /\ n.from > p + Len(name) + 1
        /\ n.to >= n.from
        /\ u > n.to
        /\ u < Len(data)
        /\ CharAt(data, u + 1) \in WordChars

MatchesOf(data, name) == {p \in 1..Len(data) : MatchAt(data, name, p)}

\* what the first match of the name captures
FirstNumber(data, name) ==
    LET n == NumberAt(data, name, Least(MatchesOf(data, name)))
    IN  ParseFloat(SubSeq(data, n.from, n.to))

\* C8: a name without a match is None and raises nothing, whatever the
\* other names do; a name with matches has the value of its first match.
C8_NamesIndependent ==
    /\ pc = "merge" =>
          \A k \in 1..Len(SearchNames) :
              IF MatchesOf(cdft_contents, SearchNames[k]) = {}
              THEN cdft_descriptors[CdftKeys[k]] = None
              ELSE /\ FirstNumber(cdft_contents, SearchNames[k]).ok
                   /\ cdft_descriptors[CdftKeys[k]] =
                          PyFloat(FirstNumber(cdft_contents, SearchNames[k]).val)
    /\ (pc = "error" /\ err.field \in CdftNames) =>
          /\ MatchesOf(cdft_contents, SearchNames[err.line]) # {}
          /\ ~FirstNumber(cdft_contents, SearchNames[err.line]).ok

\* two lines match one name and the first supplies the value, while names
\* before and after it in the loop have no match and are None
C8_Witness ==
    /\ pc = "merge"
    /\ Cardinality(MatchesOf(cdft_contents, "Electrophilicity index")) = 2
    /\ cdft_descriptors["electrophilicity_index"] = PyFloat(1234)
    /\ cdft_descriptors["electronegativity"] = None
    /\ cdft_descriptors["nucleophilicity_index"] = None

(***************************************************************************)
(* C9: the lookup of a CDFT name is case- and spacing-tolerant: a line     *)
(* with the name in another letter case, or with no or several whitespace  *)
(* characters between the colon and the number, yields the value of the    *)
(* canonically written line.                                               *)
(***************************************************************************)
\* one line, 'Electrophilicity index: 1.234 eV', written canonically, with
\* several spaces, in another letter case, and with no space after the colon
Spellings ==
    { "Electrophilicity index: 1.234 eV",
      "Electrophilicity index:   1.234  eV",
      "electrophilicity INDEX:   1.234  eV",
      "Electrophilicity index:1.234 eV" }

\* the CDFT report is the one line l
OnlyLine(l) == cdft_contents = l \o "\n"

\* the line has the name in the letter case of the pattern, and whitespace
\* after the colon
SameCase(l) == Contains(l, "Electrophilicity index:")
SpaceAfterColon(l) == CharAt(l, Find(l, ":") + 1) \in Whitespace

\* C9 as stated: every spelling of the line yields the value of the
\* canonical one.
C9_CaseAndSpacingTolerant ==
    pc = "merge" =>
        \A l \in Spellings :
            OnlyLine(l) => cdft_descriptors["electrophilicity_index"] = PyFloat(1234)

\* C9: the lookup tolerates one or more whitespace characters after the
\* colon, and nothing else: a line with the name in another letter case or
\* with no whitespace after the colon yields None.
C9_SpacingTolerantOnly ==
    pc = "merge" =>
        \A l \in Spellings :
            OnlyLine(l) =>
                cdft_descriptors["electrophilicity_index"] =
                    IF SameCase(l) /\ SpaceAfterColon(l) THEN PyFloat(1234) ELSE None

\* the line in another letter case has been looked up, and yielded None
C9_Witness ==
    /\ pc = "merge"
    /\ OnlyLine("electrophilicity INDEX:   1.234  eV")
    /\ cdft_descriptors["electrophilicity_index"] = None

(***************************************************************************)
(* C10: every record get_descriptors returns has each of the 32 general    *)
(* names and each of the 5 CDFT names exactly once; the two sets of names  *)
(* are disjoint, so the merge replaces no general value, and a field that  *)
(* was not parsed is None, never 0.                                        *)
(***************************************************************************)
Vocabulary ==
    { "atom_num", "total_energy", "HOMO", "LUMO", "HOMO_LUMO_gap", "radius_gyration",
      "mass", "diameter", "MPP", "SDP", "surface_area", "volume", "sphericity",
      "dipole_moment", "MPI", "ESP_min", "ESP_max", "ALIE_min", "ALIE_max",
      "ALIE_avg", "LEAE_min", "LEAE_max", "LEA_min", "LEA_max", "LEA_avg",
      "Hirshfeld_charge", "ADCH_charge", "RESP_charge", "spin_population",
      "electron_density", "Laplacian_electron_density", "kinetic_energy_density" }
CdftVocabulary ==
    { "electronegativity", "chemical_potential", "chemical_hardness",
      "electrophilicity_index", "nucleophilicity_index" }

\* C10: a returned record has exactly the 32 + 5 names, the general values
\* as parsed, and None for every field that was not parsed.
C10_WholeVocabulary ==
    pc = "done" =>
        /\ DOMAIN result = Vocabulary \cup CdftVocabulary
        /\ Cardinality(Vocabulary) = 32
        /\ Cardinality(CdftVocabulary) = 5
        /\ DOMAIN descriptors \cap DOMAIN cdft_descriptors = {}
        /\ \A key \in Vocabulary : result[key] = descriptors[key]
        /\ \A key \in CdftVocabulary : result[key] = cdft_descriptors[key]
        /\ \A key \in Vocabulary \ Anchored : result[key] = None
        /\ \A k \in 1..Len(SearchNames) :
              MatchesOf(cdft_contents, SearchNames[k]) = {} => result[CdftKeys[k]] = None

\* a returned record with parsed and unparsed general fields beside the CDFT
\* fields
C10_Witness ==
    /\ pc = "done"
    /\ result["total_energy"] # None
    /\ result["mass"] = None
    /\ result["volume"] = None
    /\ result["electronegativity"] # None
    /\ Cardinality({key \in DOMAIN result : result[key] = None}) > 20

(***************************************************************************)
(* C11: in the loop of main and in batch_run a fatal error on one sample   *)
(* (a malformed atom row, an ordering violation, a file that is missing)   *)
(* aborts that sample's record only: the loop goes on with the samples     *)
(* that remain and does not end the whole run.                             *)
(***************************************************************************)
\* the wave-function files batch_run has not come to, the one it is at
\* apart, and the pairs of reports the loop of main has not come to
WaveFilesLeft == Len(wave_files) - wave_i - 1
PairsLeft == Shorter(output_files, cdft_files) - Len(results_list) - 1

\* the exception of a sample has ended main
SampleAborted == pc = "aborted" /\ err.field # "get_output_files"

\* C11: a fatal error on one sample never ends the run while samples remain.
C11_BatchContinues ==
    SampleAborted =>
        IF err.field = "batch_run" THEN WaveFilesLeft = 0 ELSE PairsLeft = 0

(***************************************************************************)
(* C12: for a folder of N general reports and N CDFT reports the loop of   *)
(* main appends N records, and a record lacks only the fields whose        *)
(* section anchor the general report of its sample lacks; the records are  *)
(* always as many as the samples found, none is dropped silently.          *)
(***************************************************************************)
\* the general reports of the samples found, in the order of their numbers
SamplesFound == Sorted(OtherTxtFiles(folder))

\* descriptors whose anchor a report text holds: the atom count and, under
\* the first summary heading, the volume and the surface area
AnchoredIn(text) ==
    (IF Contains(text, " Atoms:  ") THEN {"atom_num"} ELSE {}) \cup
    (IF Contains(text, SurfaceHeading) THEN {"volume", "surface_area"} ELSE {})

\* C12: when the loop is over there is one record for each sample found, and
\* the record of a sample has every field whose anchor its general report
\* holds.
C12_EverySampleRecorded ==
    pc = "export" =>
        /\ Len(results_list) = Cardinality(OtherTxtFiles(folder))
        /\ \A k \in 1..Len(results_list) :
              \A key \in AnchoredIn(folder[SamplesFound[k]]) :
                  results_list[k][key] # None

(***************************************************************************)
(* C13: the records are in the order of the samples and each is built from *)
(* the two reports of one sample: the k-th call of get_descriptors gets as *)
(* other_file the general report of the k-th sample, by the number in the  *)
(* file name, and as cdft_file the '-CDFT.txt' report of that sample, in   *)
(* whatever order the listing returns the files.                           *)
(***************************************************************************)
\* the sample a report belongs to: the file name up to the first dot
StemOf(report) == SplitOn(report, ".")[1]

\* C13: each call of get_descriptors gets the two reports of the sample
\* whose turn it is, the general one as other_file.
C13_PairedInOrder ==
    pc = "scalars" =>
        LET report == SamplesFound[Len(results_list) + 1]
        IN  /\ other_file = report
            /\ cdft_file = CdftName(StemOf(report))

(***************************************************************************)
(* C14: a parse depends on its two texts only. What _get_other_descriptors *)
(* and _get_cdft_descriptors return for a pair of texts is the same        *)
(* whatever was parsed before: the occurrence counters start at 0 in every *)
(* call and nothing is carried over from one call to the next.             *)
(***************************************************************************)
\* _get_other_descriptors(text) on its own, with nothing from any call
\* before: what it returns and the exception it raises
OtherAlone(text) ==
    LET ls == SplitLines(text)
        a == ScalarLoop(InitialDescriptors, ls, ScalarHits(ls))
        b == IF IsRaise(a.err) THEN a
             ELSE SurfaceLoop(a.d, ls, Hits(ls, SurfaceHeading), 0)
        c == IF IsRaise(b.err) THEN b ELSE ChargeLoop(b.d, ls, ChargeHits(ls))
        d == IF IsRaise(c.err) THEN c
             ELSE FuzzyLoop(c.d, ls, Hits(ls, FuzzyHeader), 0)
    IN  [d |-> d.d, err |-> d.err]

\* the two texts the k-th record was built from
RecordTexts(k) == << folder[output_files[k]], folder[cdft_files[k]] >>

\* C14: in a batch, a call returns what the parse of its two texts alone
\* returns and raises what it raises, the counters have counted the anchors
\* of this text only, and two samples with the same texts get equal records.
C14_ParseIndependent ==
    /\ pc = "charges" => index = Cardinality(Hits(lines, SurfaceHeading))
    /\ pc = "cdft" =>
          /\ index = Cardinality(Hits(lines, FuzzyHeader))
          /\ ~IsRaise(OtherAlone(contents).err)
          /\ descriptors = OtherAlone(contents).d
    /\ (pc = "error" /\ err.field \notin CdftNames) => err = OtherAlone(contents).err
    /\ pc = "merge" => cdft_descriptors = GetCdftDescriptors(cdft_contents).d
    /\ \A j, k \in 1..Len(results_list) :
          RecordTexts(j) = RecordTexts(k) => results_list[j] = results_list[k]

\* the second sample of a batch has the texts of the first, whose parse left
\* the counter above 0, and gets the record of the first, volume and all
C14_Witness ==
    /\ pc = "loop"
    /\ Len(results_list) = 2
    /\ RecordTexts(1) = RecordTexts(2)
    /\ results_list[1] = results_list[2]
    /\ results_list[2]["volume"] # None
    /\ results_list[2]["electron_density"] # None
    /\ index > 0

(***************************************************************************)
(* C15: the four charge anchors (the ADCH citation for Hirshfeld, the      *)
(* 'Corrected charge' note for ADCH, the RESP stage-2 line, ' Population   *)
(* of atoms' for spin) are looked up by first match. When the anchor line  *)
(* occurs several times with the same content, each occurrence resolves to *)
(* the first, and the series stored is read from the window at the offset  *)
(* 8, 6, 3 or 1 after the first occurrence, never from a later one.        *)
(***************************************************************************)
\* the offset from the anchor line to the first row
RowOffset ==
    [Hirshfeld_charge |-> 8, ADCH_charge |-> 6, RESP_charge |-> 3, spin_population |-> 1]

\* the lines the k-th branch of the charge pass handles
BranchHits(k) == {j \in 1..Len(lines) : ChargeBranch(lines[j]) = k}

\* the n lines that start off lines after line a, as many as there are
RowsAfter(a, off, n) ==
    SubSeq(lines, a + off, IF a + off + n - 1 <= Len(lines) THEN a + off + n - 1 ELSE Len(lines))

\* the anchor of the k-th branch occurs, on lines of the same content
SameAnchorLines(k) ==
    BranchHits(k) # {} /\ \A j \in BranchHits(k) : lines[j] = lines[Least(BranchHits(k))]

\* C15: once the charge pass has run, a charge series whose anchor line
\* occurs one or more times with the same content holds the rows at the
\* fixed offset after the first occurrence.
C15_FirstMatchWindow ==
    pc = "fuzzy" =>
        \A k \in 1..Len(ChargeSections) :
            LET sec == ChargeSections[k]
                rows == RowsAfter(Least(BranchHits(k)), RowOffset[sec.key],
                                  descriptors["atom_num"].val)
            IN  SameAnchorLines(k) =>
                    /\ \A j \in 1..Len(rows) : WellFormed(rows[j], sec.layout)
                    /\ PairPerRow(descriptors[sec.key], rows, sec.layout)

\* the ADCH note occurs twice with the same content, the second time over
\* the rows of other atoms, and the series has the atoms under the first
C15_Witness ==
    /\ pc = "fuzzy"
    /\ Cardinality(BranchHits(2)) = 2
    /\ SameAnchorLines(2)
    /\ descriptors["ADCH_charge"].atoms = << "1(C)", "2(O)" >>
    /\ descriptors["ADCH_charge"].charges = << -165, 165 >>
    /\ RowsAfter(Greatest(BranchHits(2)), 6, 2) =
           << " Atom     1(N ):    -0.35", " Atom     2(H ):     0.35" >>

(***************************************************************************)
(* C16: in _get_other_descriptors the scalar pass over all the lines is    *)
(* over before any atom section is read, and the charge pass before the    *)
(* fuzzy-space pass. The atom_num that sizes every window is the one the   *)
(* whole scalar pass resolves, the count of the last ' Atoms:  ' line, so  *)
(* an ' Atoms:  ' line after an atom-section anchor still sizes the window *)
(* of that section and causes no ordering failure.                         *)
(***************************************************************************)
\* the ' Atoms:  ' lines, and the count the last of them gives
AtomsHits == Hits(lines, " Atoms:  ")
LastCount == ParseInt(SplitOn(SplitOn(lines[Greatest(AtomsHits)], ": ")[2], ",")[1]).val

\* the k-th section's window holds sound rows, and the series stored for it
\* has them, as many as the last count or as are left in the text
SizedByLastCount(key, a, off, layout) ==
    LET rows == RowsAfter(a, off, LastCount)
    IN  /\ \A j \in 1..Len(rows) : WellFormed(rows[j], layout)
        /\ PairPerRow(descriptors[key], rows, layout)

\* C16: after the scalar pass atom_num is the count of the last ' Atoms:  '
\* line wherever it stands; no series is stored before the pass of its kind
\* runs; every series stored is sized by that count; and TypeError is raised
\* only when the text has no ' Atoms:  ' line at all.
C16_ScalarPassFirst ==
    /\ (pc \in {"surface", "charges", "fuzzy", "cdft"} /\ AtomsHits # {}) =>
          descriptors["atom_num"] = PyInt(LastCount)
    /\ pc \in {"scalars", "surface", "charges"} =>
          \A key \in AtomSeriesNames : descriptors[key] = None
    /\ pc = "fuzzy" =>
          /\ \A key \in FuzzyNames : descriptors[key] = None
          /\ \A k \in 1..Len(ChargeSections) :
                BranchHits(k) # {} =>
                    SizedByLastCount(ChargeSections[k].key,
                        Least({a \in 1..Len(lines) : lines[a] = lines[Greatest(BranchHits(k))]}),
                        RowOffset[ChargeSections[k].key], ChargeSections[k].layout)
    /\ pc = "cdft" =>
          \A key \in FuzzyNames :
              Nth(Hits(lines, FuzzyHeader), HeaderOf(key)) # 0 =>
                  SizedByLastCount(key, Nth(Hits(lines, FuzzyHeader), HeaderOf(key)), 1, "fuzzy")
    /\ (pc = "error" /\ err.kind = "TypeError") => AtomsHits = {}
    /\ (pc = "error" /\ err.field \in ChargeNames) =>
          \A key \in FuzzyNames : descriptors[key] = None
    /\ (pc = "error" /\ err.field \notin AtomSeriesNames /\ err.field \in OtherNames) =>
          \A key \in AtomSeriesNames : descriptors[key] = None

\* the count of one atom stands before the RESP section and the count of two
\* after it: the series has the two rows
C16_Witness ==
    /\ pc = "cdft"
    /\ Cardinality(AtomsHits) = 2
    /\ \E a \in BranchHits(3) : Least(AtomsHits) < a /\ a < Greatest(AtomsHits)
    /\ Contains(lines[Least(AtomsHits)], " Atoms:      1,")
    /\ descriptors["atom_num"] = PyInt(2)
    /\ descriptors["RESP_charge"].atoms = << "1(C)", "2(O)" >>

====
